---- MODULE Spec2Model ----
(***************************************************************************)
(* Voice-based grading: utterance parsing (src/src/parser.py), name        *)
(* resolution (src/src/name_matcher.py), the CSV store                     *)
(* (src/src/csv_updater.py) and the orchestration of one utterance         *)
(* (src/main.py).                                                          *)
(*                                                                         *)
(* A text is a sequence of characters; a character is a short ASCII label. *)
(* Chinese characters are labelled by their toneless pinyin, capitalised,  *)
(* with a digit to tell homophones apart:                                  *)
(*   Li U+674E  Li2 U+4E3D  Li3 U+529B  Lu U+9C81  De U+7684               *)
(*   Tong U+540C  Xue U+5B66                                               *)
(*   Dui U+5BF9  Zheng U+6B63  Que U+786E  Cuo U+9519  Wu U+8BEF           *)
(*   Ling U+96F6 Yi U+4E00 Er U+4E8C San U+4E09 Si U+56DB Wu3 U+4E94       *)
(*   Liu U+516D Qi U+4E03 Ba U+516B Jiu U+4E5D Shi U+5341 Bai U+767E       *)
(*   Qian U+5343 Wan U+4E07                                                *)
(*   Zheng4 U+8BC1 Quan U+5238  Dui4 U+961F Wu4 U+4F0D  Shi2 U+5B9E        *)
(*   Wu5 U+7269  Cheng U+6210 Ji U+7EE9                                    *)
(* ASCII characters are themselves: " ", "\t", "0".."9".                   *)
(***************************************************************************)
EXTENDS Integers, Sequences, FiniteSets, TLC

VARIABLES
    student_names,   \* NameMatcher.student_names: the roster, in load order
    name_to_pinyin,  \* NameMatcher.name_to_pinyin: insertion-ordered table
    df,              \* CSVUpdater.df: rows [name, correct, wrong]
    pc,              \* position of the driver: "ready" before a call, "done" after
    arg,             \* argument of the call being made
    ret,             \* what the last call returned
    csv,             \* the rows last written to the CSV file
    emitted,         \* decision records emitted by the last call, in order
    shown,           \* names printed to the speaker by the last process_speech
    lock,            \* CSVUpdater.lock: the thread that holds it, 0 when free
    calls,           \* update_student calls in progress, one per thread
    pending,         \* the entry process_speech has resolved and not yet stored
    resolved,        \* history: entries in the order their names were resolved
    applied          \* history: entries in the order update_student took them

vars == <<student_names, name_to_pinyin, df, csv, pc, arg, ret, emitted, shown,
          lock, calls, pending, resolved, applied>>

\* The part of the state that only the step-by-step specifications move.
steps == <<lock, calls, pending, resolved, applied>>

-----------------------------------------------------------------------------
(* Generic sequence helpers *)

\* Python None where a name (a sequence of characters) is expected.
NoName == <<"None">>

\* Python None where a count is expected.
NoCount == -1

Min2(a, b) == IF a <= b THEN a ELSE b

\* s[i..j] (1-based, inclusive); empty when j < i.
Slice(s, i, j) == IF j < i THEN <<>> ELSE SubSeq(s, i, j)

\* p occurs in s at position i.
MatchesAt(s, p, i) ==
    /\ i >= 1
    /\ i + Len(p) - 1 <= Len(s)
    /\ \A k \in 1..Len(p) : s[i + k - 1] = p[k]

\* str.startswith
StartsWith(s, p) == MatchesAt(s, p, 1)

\* x in list
Contains(list, x) == \E i \in 1..Len(list) : list[i] = x

Whitespace == {" ", "\t"}

\* str.strip()
RECURSIVE LStrip(_)
LStrip(s) ==
    IF s # <<>> /\ Head(s) \in Whitespace THEN LStrip(Tail(s)) ELSE s

RECURSIVE RStrip(_)
RStrip(s) ==
    IF s # <<>> /\ s[Len(s)] \in Whitespace
    THEN RStrip(Slice(s, 1, Len(s) - 1)) ELSE s

Strip(s) == RStrip(LStrip(s))

-----------------------------------------------------------------------------
(* Characters *)

Digits == {"0", "1", "2", "3", "4", "5", "6", "7", "8", "9"}

\* The character class of the number alternative in the scanners.
CnNumerals == {"Ling", "Yi", "Er", "San", "Si", "Wu3", "Liu", "Qi", "Ba",
               "Jiu", "Shi", "Bai", "Qian", "Wan"}

\* lazy_pinyin for one character: the toneless syllable of a Chinese
\* character, any other character unchanged; then str.lower.
PinyinOf(c) ==
    CASE c \in {"Li", "Li2", "Li3"} -> <<"l", "i">>
      [] c = "Lu"     -> <<"l", "u">>
      [] c = "De"     -> <<"d", "e">>
      [] c = "Tong"   -> <<"t", "o", "n", "g">>
      [] c = "Xue"    -> <<"x", "u", "e">>
      [] c \in {"Dui", "Dui4"} -> <<"d", "u", "i">>
      [] c \in {"Zheng", "Zheng4"} -> <<"z", "h", "e", "n", "g">>
      [] c = "Que"    -> <<"q", "u", "e">>
      [] c = "Cuo"    -> <<"c", "u", "o">>
      [] c \in {"Wu", "Wu3", "Wu4", "Wu5"} -> <<"w", "u">>
      [] c = "Ling"   -> <<"l", "i", "n", "g">>
      [] c = "Yi"     -> <<"y", "i">>
      [] c = "Er"     -> <<"e", "r">>
      [] c = "San"    -> <<"s", "a", "n">>
      [] c = "Si"     -> <<"s", "i">>
      [] c = "Liu"    -> <<"l", "i", "u">>
      [] c = "Qi"     -> <<"q", "i">>
      [] c = "Ba"     -> <<"b", "a">>
      [] c = "Jiu"    -> <<"j", "i", "u">>
      [] c \in {"Shi", "Shi2"} -> <<"s", "h", "i">>
      [] c = "Bai"    -> <<"b", "a", "i">>
      [] c = "Qian"   -> <<"q", "i", "a", "n">>
      [] c = "Wan"    -> <<"w", "a", "n">>
      [] c = "Quan"   -> <<"q", "u", "a", "n">>
      [] c = "Cheng"  -> <<"c", "h", "e", "n", "g">>
      [] c = "Ji"     -> <<"j", "i">>
      [] OTHER        -> <<c>>

\* NameMatcher._get_pinyin: "".join(lazy_pinyin(name)).lower()
RECURSIVE _get_pinyin(_)
_get_pinyin(name) ==
    IF name = <<>> THEN <<>>
    ELSE PinyinOf(Head(name)) \o _get_pinyin(Tail(name))

-----------------------------------------------------------------------------
(* Levenshtein.distance, by rows of the edit-distance table *)

\* The next row of the table: prev is the row for the first i-1 characters
\* of a, acc the part of the row for the first i characters built so far.
RECURSIVE LevRow(_, _, _, _)
LevRow(ch, b, prev, acc) ==
    IF Len(acc) = Len(prev) THEN acc
    ELSE LET j == Len(acc)
             cost == IF ch = b[j] THEN 0 ELSE 1
             cell == Min2(Min2(prev[j + 1] + 1, acc[j] + 1), prev[j] + cost)
         IN  LevRow(ch, b, prev, Append(acc, cell))

RECURSIVE LevRows(_, _, _, _)
LevRows(a, b, i, prev) ==
    IF i > Len(a) THEN prev
    ELSE LevRows(a, b, i + 1, LevRow(a[i], b, prev, <<i>>))

Levenshtein(a, b) ==
    LevRows(a, b, 1, [j \in 1..(Len(b) + 1) |-> j - 1])[Len(b) + 1]

-----------------------------------------------------------------------------
(* Decision records: src/config.py, src/src/structured_logger.py *)

\* config.ENABLE_STRUCTURED_LOGGING
ENABLE_STRUCTURED_LOGGING == TRUE

\* `if ENABLE_STRUCTURED_LOGGING: self.structured_logger.log_...(...)`: the
\* record handed to the sink, tagged with its stage.
Emit(record) == IF ENABLE_STRUCTURED_LOGGING THEN <<record>> ELSE <<>>

-----------------------------------------------------------------------------
(* Text utilities: src/src/utils.py *)

\* ' '.join(text.split()): inword says that the character copied last
\* belongs to a word, so that a following word is joined by one space.
RECURSIVE JoinWords(_, _)
JoinWords(text, inword) ==
    IF text = <<>> THEN <<>>
    ELSE IF Head(text) \in Whitespace
         THEN LET rest == JoinWords(Tail(text), FALSE)
              IN  IF inword /\ rest # <<>> THEN <<" ">> \o rest ELSE rest
         ELSE <<Head(text)>> \o JoinWords(Tail(text), TRUE)

\* A normalization that reports removed whitespace whatever the text.
normalize_always_reporting(text) ==
    [normalized |-> JoinWords(text, FALSE), removed |-> <<"extra_whitespace">>]

\* normalize_chinese_text(text, track_removed=True)
normalize_chinese_text(text) ==
    LET normalized == JoinWords(text, FALSE)
    IN  [normalized |-> normalized,
         removed |-> IF text # normalized THEN <<"extra_whitespace">> ELSE <<>>]

DigitValue(c) ==
    CASE c = "0" -> 0 [] c = "1" -> 1 [] c = "2" -> 2 [] c = "3" -> 3
      [] c = "4" -> 4 [] c = "5" -> 5 [] c = "6" -> 6 [] c = "7" -> 7
      [] c = "8" -> 8 [] c = "9" -> 9

\* int(value) for a run of decimal digits.
RECURSIVE IntOf(_, _)
IntOf(value, acc) ==
    IF value = <<>> THEN acc
    ELSE IntOf(Tail(value), 10 * acc + DigitValue(Head(value)))

\* The Chinese digits Ling..Jiu and their values.
CnDigits == {"Ling", "Yi", "Er", "San", "Si", "Wu3", "Liu", "Qi", "Ba", "Jiu"}

CnDigitValue(c) ==
    CASE c = "Ling" -> 0 [] c = "Yi" -> 1 [] c = "Er" -> 2 [] c = "San" -> 3
      [] c = "Si" -> 4 [] c = "Wu3" -> 5 [] c = "Liu" -> 6 [] c = "Qi" -> 7
      [] c = "Ba" -> 8 [] c = "Jiu" -> 9

RECURSIVE CnDirect(_, _)
CnDirect(value, acc) ==
    IF value = <<>> THEN acc
    ELSE CnDirect(Tail(value), 10 * acc + CnDigitValue(Head(value)))

\* cn2an.cn2an(value, "smart") on a run of Chinese numerals, for the runs
\* the model feeds it (digits and Shi): a run of digits alone is read digit
\* by digit; [d] Shi [d] is a number up to 99; anything else raises, which
\* safe_int_conversion turns into None.
Cn2An(value) ==
    LET n == Len(value)
        nz(c) == c \in CnDigits \ {"Ling"}
    IN  IF \A i \in 1..n : value[i] \in CnDigits THEN CnDirect(value, 0)
        ELSE IF n = 1 /\ value[1] = "Shi" THEN 10
        ELSE IF n = 2 /\ value[1] = "Shi" /\ nz(value[2])
             THEN 10 + CnDigitValue(value[2])
        ELSE IF n = 2 /\ nz(value[1]) /\ value[2] = "Shi"
             THEN 10 * CnDigitValue(value[1])
        ELSE IF n = 3 /\ nz(value[1]) /\ value[2] = "Shi" /\ nz(value[3])
             THEN 10 * CnDigitValue(value[1]) + CnDigitValue(value[3])
        ELSE NoCount

\* safe_int_conversion: int() first, then cn2an, None when both fail.
safe_int_conversion(value) ==
    IF value # <<>> /\ \A i \in 1..Len(value) : value[i] \in Digits
    THEN IntOf(value, 0)
    ELSE Cn2An(value)

-----------------------------------------------------------------------------
(* Utterance parsing: src/src/parser.py *)

\* config.CORRECT_KEYWORDS and config.WRONG_KEYWORDS, in list order.
CORRECT_KEYWORDS == << <<"Dui">>, <<"Zheng", "Que">> >>
WRONG_KEYWORDS == << <<"Cuo">>, <<"Cuo", "Wu">> >>

\* The first position >= i that holds no whitespace: where \s* stops.
RECURSIVE SkipSpace(_, _)
SkipSpace(text, i) ==
    IF i <= Len(text) /\ text[i] \in Whitespace THEN SkipSpace(text, i + 1)
    ELSE i

\* The last position of the longest run of characters of class cls that
\* starts at i (i - 1 when text[i] is not of that class).
RECURSIVE RunEnd(_, _, _)
RunEnd(text, cls, i) ==
    IF i <= Len(text) /\ text[i] \in cls THEN RunEnd(text, cls, i + 1)
    ELSE i - 1

\* (\d+|[Ling..Wan]+) at i, greedy: the last position of the number, 0 when
\* no number starts at i.  Nothing that can follow the number in either
\* alternative starts with a character of the number's own class, so a
\* shorter number never matches where the longest one does not.
NumberEnd(text, i) ==
    IF i > Len(text) THEN 0
    ELSE IF text[i] \in Digits THEN RunEnd(text, Digits, i)
    ELSE IF text[i] \in CnNumerals THEN RunEnd(text, CnNumerals, i)
    ELSE 0

\* First alternative at i, (keyword)\s*(number): group(2), or <<>> when it
\* does not match.  The keywords are tried in pattern order.
KeywordFirst(text, keywords, i) ==
    LET ok(k) == /\ MatchesAt(text, keywords[k], i)
                 /\ NumberEnd(text, SkipSpace(text, i + Len(keywords[k]))) # 0
        hits  == {k \in 1..Len(keywords) : ok(k)}
    IN  IF hits = {} THEN <<>>
        ELSE LET k == CHOOSE h \in hits : \A g \in hits : h <= g
                 j == SkipSpace(text, i + Len(keywords[k]))
             IN  Slice(text, j, NumberEnd(text, j))

\* Second alternative at i, (number)\s*(?:keyword): group(3), or <<>>.
NumberFirst(text, keywords, i) ==
    LET e == NumberEnd(text, i)
        j == SkipSpace(text, e + 1)
    IN  IF e # 0 /\ \E k \in 1..Len(keywords) : MatchesAt(text, keywords[k], j)
        THEN Slice(text, i, e)
        ELSE <<>>

\* regex.search(text): the match at the leftmost position where either
\* alternative matches; match.group(2) or match.group(3); <<>> for no match.
RECURSIVE SearchFrom(_, _, _)
SearchFrom(text, keywords, i) ==
    IF i > Len(text) THEN <<>>
    ELSE LET g2 == KeywordFirst(text, keywords, i)
             g3 == NumberFirst(text, keywords, i)
         IN  IF g2 # <<>> THEN g2
             ELSE IF g3 # <<>> THEN g3
             ELSE SearchFrom(text, keywords, i + 1)

\* SpeechParser._extract_count
_extract_count(keywords, text) ==
    LET num_str == SearchFrom(text, keywords, 1)
    IN  IF num_str = <<>> THEN NoCount ELSE safe_int_conversion(num_str)

\* A name split at the keywords only.
SplitsAtKeyword(text, i) ==
    \/ \E k \in 1..Len(CORRECT_KEYWORDS) : MatchesAt(text, CORRECT_KEYWORDS[k], i)
    \/ \E k \in 1..Len(WRONG_KEYWORDS) : MatchesAt(text, WRONG_KEYWORDS[k], i)

\* The pattern of the name split: \d, or one of the four keywords.
SplitsAt(text, i) ==
    \/ text[i] \in Digits
    \/ \E k \in 1..Len(CORRECT_KEYWORDS) : MatchesAt(text, CORRECT_KEYWORDS[k], i)
    \/ \E k \in 1..Len(WRONG_KEYWORDS) : MatchesAt(text, WRONG_KEYWORDS[k], i)

\* re.split(pattern, text, maxsplit=1)[0]
SplitHead(text) ==
    LET hits == {i \in 1..Len(text) : SplitsAt(text, i)}
    IN  IF hits = {} THEN text
        ELSE Slice(text, 1, (CHOOSE i \in hits : \A j \in hits : i <= j) - 1)

\* The GradeEntry that stands for None.
NoEntry == [name |-> NoName, correct |-> NoCount, wrong |-> NoCount]

OrZero(n) == IF n = NoCount THEN 0 ELSE n

\* A test that fails the parse as soon as one count is missing.
EitherMissing(correct, wrong) == correct = NoCount \/ wrong = NoCount

\* `correct is None and wrong is None`
BothMissing(correct, wrong) == correct = NoCount /\ wrong = NoCount

\* A failure path that returns without its record.
ParseFailSilent(rec0, raw_input, reason) == Emit(rec0)

\* The records of a failing parse: log_text_normalize, then log_parse_fail.
ParseFailRecords(rec0, raw_input, reason) ==
    Emit(rec0) \o Emit([stage |-> "PARSE_FAIL", raw_input |-> raw_input,
                         reason |-> reason])

\* SpeechParser.parse: the returned entry and the decision records emitted.
parse(raw_input) ==
    LET norm    == normalize_chinese_text(raw_input)
        text    == norm.normalized
        rec0    == [stage |-> "TEXT_NORMALIZE", raw_input |-> raw_input,
                    normalized_input |-> text, removed_tokens |-> norm.removed]
        correct == _extract_count(CORRECT_KEYWORDS, text)
        wrong   == _extract_count(WRONG_KEYWORDS, text)
        name_candidate == Strip(SplitHead(text))
    IN  IF BothMissing(correct, wrong)
        THEN [entry |-> NoEntry,
              log |-> ParseFailRecords(rec0, raw_input, "missing_both_counts")]
        ELSE IF name_candidate = <<>>
        THEN [entry |-> NoEntry,
              log |-> ParseFailRecords(rec0, raw_input, "no_name_extracted")]
        ELSE [entry |-> [name |-> name_candidate, correct |-> OrZero(correct),
                         wrong |-> OrZero(wrong)],
              log |-> Emit(rec0)
                      \o Emit([stage |-> "PARSE_SUCCESS",
                               raw_input |-> raw_input,
                               name |-> name_candidate,
                               correct |-> OrZero(correct),
                               wrong |-> OrZero(wrong)])]

-----------------------------------------------------------------------------
(* Name resolution: src/src/name_matcher.py *)

\* NAME_NOISE_WORDS, in list order.
NAME_NOISE_WORDS ==
    << <<"Zheng4", "Quan">>, <<"Dui4", "Wu4">>, <<"Shi2", "Wu5">>,
       <<"Cheng", "Ji">>, <<"Tong", "Xue">>, <<"Tong", "Xue", "De">>,
       <<"De">> >>

\* The hard-coded fuzzy threshold of find_match.
FuzzyMaxDistance == 2

\* The number of names process_speech prints for an ambiguous match.
ShownLimit == 3

\* The number of closest candidates attached to a NAME_MATCH_FAIL record.
TopCandidates == 3

\* str.replace(p, ""): every non-overlapping occurrence, left to right.
RECURSIVE RemoveAll(_, _)
RemoveAll(s, p) ==
    IF s = <<>> THEN <<>>
    ELSE IF MatchesAt(s, p, 1)
         THEN RemoveAll(Slice(s, Len(p) + 1, Len(s)), p)
         ELSE <<Head(s)>> \o RemoveAll(Tail(s), p)

\* The loop of _clean_input_name over the noise words from index k on.
RECURSIVE RemoveNoise(_, _)
RemoveNoise(cleaned, k) ==
    IF k > Len(NAME_NOISE_WORDS) THEN cleaned
    ELSE RemoveNoise(RemoveAll(cleaned, NAME_NOISE_WORDS[k]), k + 1)

\* NameMatcher._clean_input_name
_clean_input_name(name) == Strip(RemoveNoise(name, 1))

\* {name: self._get_pinyin(name) for name in names}: one entry per distinct
\* name, in the order of first occurrence.
RECURSIVE PinyinTable(_, _)
PinyinTable(names, acc) ==
    IF names = <<>> THEN acc
    ELSE LET n == Head(names)
         IN  IF \E i \in 1..Len(acc) : acc[i].name = n
             THEN PinyinTable(Tail(names), acc)
             ELSE PinyinTable(Tail(names),
                              Append(acc, [name |-> n, pinyin |-> _get_pinyin(n)]))

\* The (name, dist) pairs of a loop over name_to_pinyin.items().
RECURSIVE Distances(_, _)
Distances(table, input_pinyin) ==
    IF table = <<>> THEN <<>>
    ELSE <<[name |-> Head(table).name,
            distance |-> Levenshtein(input_pinyin, Head(table).pinyin)]>>
         \o Distances(Tail(table), input_pinyin)

\* list.sort(key=lambda x: x[1]): stable, by distance.
RECURSIVE InsertByDistance(_, _)
InsertByDistance(sorted, c) ==
    IF sorted = <<>> THEN <<c>>
    ELSE IF sorted[Len(sorted)].distance <= c.distance
         THEN Append(sorted, c)
         ELSE Append(InsertByDistance(Slice(sorted, 1, Len(sorted) - 1), c),
                     sorted[Len(sorted)])

RECURSIVE SortFrom(_, _)
SortFrom(list, acc) ==
    IF list = <<>> THEN acc
    ELSE SortFrom(Tail(list), InsertByDistance(acc, Head(list)))

SortByDistance(list) == SortFrom(list, <<>>)

\* A threshold test written with < in place of <=.
WithinDistanceStrict(list, d) == SelectSeq(list, LAMBDA c : c.distance < d)

\* The candidates kept by `if dist <= 2`.
WithinDistance(list, d) == SelectSeq(list, LAMBDA c : c.distance <= d)

\* An ambiguous list that keeps every candidate within the threshold.
AtDistanceOrMore(list, d) == SelectSeq(list, LAMBDA c : c.distance >= d)

\* [c for c in candidates if c[1] == candidates[0][1]]
AtDistance(list, d) == SelectSeq(list, LAMBDA c : c.distance = d)

\* An equal-key tier that keeps the last entry found instead of returning
\* on the first.
LastPinyinExact(table, input_pinyin) ==
    LET hits == {i \in 1..Len(table) : table[i].pinyin = input_pinyin}
    IN  IF hits = {} THEN 0 ELSE CHOOSE i \in hits : \A j \in hits : i >= j

\* Index of the first table entry whose key equals the input key, 0 if none.
FirstPinyinExact(table, input_pinyin) ==
    LET hits == {i \in 1..Len(table) : table[i].pinyin = input_pinyin}
    IN  IF hits = {} THEN 0 ELSE CHOOSE i \in hits : \A j \in hits : i <= j

\* A starts-with test in one direction only.
FirstPinyinPrefixOnly(table, input_pinyin) ==
    LET hits == {i \in 1..Len(table) :
                    StartsWith(input_pinyin, table[i].pinyin)}
    IN  IF hits = {} THEN 0 ELSE CHOOSE i \in hits : \A j \in hits : i <= j

\* A starts-with tier that lets an empty input key match nothing.
FirstPinyinContainsNonEmpty(table, input_pinyin) ==
    LET hits == {i \in 1..Len(table) :
                    /\ input_pinyin # <<>>
                    /\ \/ StartsWith(input_pinyin, table[i].pinyin)
                       \/ StartsWith(table[i].pinyin, input_pinyin)}
    IN  IF hits = {} THEN 0 ELSE CHOOSE i \in hits : \A j \in hits : i <= j

\* Index of the first table entry in a starts-with relation with the input
\* key, 0 if none.
FirstPinyinContains(table, input_pinyin) ==
    LET hits == {i \in 1..Len(table) :
                    \/ StartsWith(input_pinyin, table[i].pinyin)
                    \/ StartsWith(table[i].pinyin, input_pinyin)}
    IN  IF hits = {} THEN 0 ELSE CHOOSE i \in hits : \A j \in hits : i <= j

\* NameMatcher.find_match against the roster `names` and its table: the
\* returned pair and the decision records it emits.
find_match(names, table, input_name) ==
    LET cleaned      == _clean_input_name(input_name)
        input_pinyin == _get_pinyin(cleaned)
        t2           == FirstPinyinExact(table, input_pinyin)
        t3           == FirstPinyinContains(table, input_pinyin)
        all          == Distances(table, input_pinyin)
        candidates   == SortByDistance(WithinDistance(all, FuzzyMaxDistance))
        ambiguous_candidates == AtDistance(candidates, candidates[1].distance)
    IN  IF Contains(names, cleaned)
        THEN [name |-> cleaned, kind |-> "exact",
              log |-> Emit([stage |-> "NAME_MATCH_EXACT",
                         input_name |-> input_name,
                         matched_name |-> cleaned])]
        ELSE IF t2 # 0
        THEN [name |-> table[t2].name, kind |-> "pinyin_exact",
              log |-> Emit([stage |-> "NAME_MATCH_PINYIN_EXACT",
                         input_name |-> input_name,
                         input_pinyin |-> input_pinyin,
                         matched_name |-> table[t2].name])]
        ELSE IF t3 # 0
        THEN [name |-> table[t3].name, kind |-> "pinyin_contains",
              log |-> Emit([stage |-> "NAME_MATCH_PINYIN_CONTAINS",
                         input_name |-> input_name,
                         input_pinyin |-> input_pinyin,
                         matched_name |-> table[t3].name])]
        ELSE IF candidates = <<>>
        THEN [name |-> NoName, kind |-> "None",
              log |-> Emit([stage |-> "NAME_MATCH_FAIL",
                         input_name |-> input_name,
                         input_pinyin |-> input_pinyin,
                         top_candidates |->
                             Slice(SortByDistance(all), 1,
                                   Min2(TopCandidates, Len(all)))])]
        ELSE IF Len(candidates) > 1
                /\ candidates[1].distance = candidates[2].distance
        THEN [name |-> NoName, kind |-> "ambiguous",
              log |-> Emit([stage |-> "NAME_MATCH_AMBIGUOUS",
                         input_name |-> input_name,
                         input_pinyin |-> input_pinyin,
                         candidates |-> ambiguous_candidates])]
        ELSE [name |-> candidates[1].name, kind |-> "pinyin_fuzzy",
              log |-> Emit([stage |-> "NAME_MATCH_FUZZY",
                         input_name |-> input_name,
                         input_pinyin |-> input_pinyin,
                         matched_name |-> candidates[1].name,
                         candidates |-> candidates])]

\* NameMatcher.find_all_similar with the default max_distance.
find_all_similar(table, input_name) ==
    SortByDistance(WithinDistance(Distances(table, _get_pinyin(input_name)),
                                  FuzzyMaxDistance))

\* A roster change that adds the new names to the table it has.
update_student_list_keeping(self, new_names) ==
    [student_names |-> new_names,
     name_to_pinyin |-> PinyinTable(new_names, self.name_to_pinyin)]

\* NameMatcher.update_student_list: the roster is replaced and the table is
\* built anew from it.
update_student_list(self, new_names) ==
    [student_names |-> new_names,
     name_to_pinyin |-> PinyinTable(new_names, <<>>)]

-----------------------------------------------------------------------------
(* The store: src/src/csv_updater.py *)

\* The rows of the table as loaded from the file: one per line, counters 0.
RECURSIVE RowsOf(_)
RowsOf(names) ==
    IF names = <<>> THEN <<>>
    ELSE <<[name |-> Head(names), correct |-> 0, wrong |-> 0]>>
         \o RowsOf(Tail(names))

\* CSVUpdater.get_student_names: df['name'].tolist()
RECURSIVE get_student_names(_)
get_student_names(rows) ==
    IF rows = <<>> THEN <<>>
    ELSE <<Head(rows).name>> \o get_student_names(Tail(rows))

\* An update that adds the entry's counters to those of the row.
update_student_adding(rows, file, entry, write_ok) ==
    LET student_idx == {i \in 1..Len(rows) : rows[i].name = entry.name}
    IN  IF student_idx = {}
        THEN [df |-> rows, file |-> file, success |-> FALSE, log |-> <<>>]
        ELSE LET idx == CHOOSE i \in student_idx : \A j \in student_idx : i <= j
                 new == [rows EXCEPT
                           ![idx].correct = rows[idx].correct + entry.correct,
                           ![idx].wrong = rows[idx].wrong + entry.wrong]
             IN  IF write_ok
                 THEN [df |-> new, file |-> new, success |-> TRUE,
                       log |-> <<>>]
                 ELSE [df |-> new, file |-> file, success |-> FALSE,
                       log |-> <<>>]

\* CSVUpdater.update_student on the table `rows` and the file `file`;
\* write_ok says whether to_csv succeeds.  The assignments to the row come
\* before the write, and the except branch only returns False.  Its messages
\* go to the plain logger (logger.info, logger.error); no call of the
\* structured logger is made, so the decision records it emits are none.
update_student(rows, file, entry, write_ok) ==
    LET student_idx == {i \in 1..Len(rows) : rows[i].name = entry.name}
    IN  IF student_idx = {}
        THEN [df |-> rows, file |-> file, success |-> FALSE, log |-> <<>>]
        ELSE LET idx == CHOOSE i \in student_idx : \A j \in student_idx : i <= j
                 new == [rows EXCEPT ![idx].correct = entry.correct,
                                     ![idx].wrong = entry.wrong]
             IN  IF write_ok
                 THEN [df |-> new, file |-> new, success |-> TRUE,
                       log |-> <<>>]
                 ELSE [df |-> new, file |-> file, success |-> FALSE,
                       log |-> <<>>]

-----------------------------------------------------------------------------
(* One utterance: src/main.py *)

\* [n for n, _ in similar[:3]]
RECURSIVE NamesOf(_)
NamesOf(pairs) ==
    IF pairs = <<>> THEN <<>>
    ELSE <<Head(pairs).name>> \o NamesOf(Tail(pairs))

ShownNames(table, name) ==
    LET similar == find_all_similar(table, name)
    IN  NamesOf(Slice(similar, 1, Min2(ShownLimit, Len(similar))))

\* A process_speech that settles an ambiguous match on the first similar
\* name instead of asking the speaker.
process_speech_guessing(names, table, rows, file, text, write_ok) ==
    LET p == parse(text)
        m == find_match(names, table, p.entry.name)
        similar == ShownNames(table, p.entry.name)
        guess == IF m.kind = "ambiguous" /\ similar # <<>>
                 THEN similar[1] ELSE m.name
        u == update_student(rows, file,
                            [p.entry EXCEPT !.name = guess], write_ok)
    IN  IF p.entry = NoEntry
        THEN [entry |-> NoEntry, name |-> NoName, kind |-> "None",
              called |-> FALSE, success |-> FALSE,
              shown |-> <<>>, df |-> rows, file |-> file, log |-> p.log]
        ELSE IF guess = NoName
        THEN [entry |-> p.entry, name |-> NoName, kind |-> m.kind,
              called |-> FALSE, success |-> FALSE,
              shown |-> <<>>, df |-> rows, file |-> file,
              log |-> p.log \o m.log]
        ELSE [entry |-> p.entry, name |-> m.name, kind |-> m.kind,
              called |-> (m.name # NoName), success |-> u.success,
              shown |-> <<>>, df |-> u.df, file |-> u.file,
              log |-> p.log \o m.log \o u.log]

\* VoiceGradingSystem.process_speech: what one utterance does: the parsed
\* entry, the match, the names printed, the table and the file afterwards.
process_speech(names, table, rows, file, text, write_ok) ==
    LET p == parse(text)
        m == find_match(names, table, p.entry.name)
        u == update_student(rows, file,
                            [p.entry EXCEPT !.name = m.name], write_ok)
    IN  IF p.entry = NoEntry
        THEN [entry |-> NoEntry, name |-> NoName, kind |-> "None",
              called |-> FALSE, success |-> FALSE,
              shown |-> <<>>, df |-> rows, file |-> file, log |-> p.log]
        ELSE IF m.name = NoName
        THEN [entry |-> p.entry, name |-> NoName, kind |-> m.kind,
              called |-> FALSE, success |-> FALSE,
              shown |-> IF m.kind = "ambiguous"
                        THEN ShownNames(table, p.entry.name) ELSE <<>>,
              df |-> rows, file |-> file, log |-> p.log \o m.log]
        ELSE [entry |-> p.entry, name |-> m.name, kind |-> m.kind,
              called |-> TRUE, success |-> u.success,
              shown |-> <<>>, df |-> u.df, file |-> u.file,
              log |-> p.log \o m.log \o u.log]

-----------------------------------------------------------------------------
(* Bounded inputs *)

\* All sequences over S of length lo..hi.
SeqsOf(S, lo, hi) == UNION {[1..k -> S] : k \in lo..hi}

\* The words of an utterance written one after the other, sep in between.
RECURSIVE Join(_, _)
Join(words, sep) ==
    IF words = <<>> THEN <<>>
    ELSE IF Len(words) = 1 THEN Head(words)
    ELSE Head(words) \o sep \o Join(Tail(words), sep)

\* Rosters of the matcher: up to MaxRoster names, repetitions allowed.  The
\* names bring homophones (Li, Li2), a noise word inside a name (Li De), and
\* keys at edit distance 1, 2 and 3 and in prefix relation.
MaxRoster == 3
RosterNames ==
    { <<"Li">>, <<"Li2">>, <<"Lu">>, <<"Li", "De">>, <<"Li", "Li">>,
      <<"Li", "Lu">>, <<"Lu", "Lu">> }
Rosters == SeqsOf(RosterNames, 0, MaxRoster)

\* Candidates given to find_match: up to MaxCandLen characters; Li3 is a
\* homophone of Li and Li2 that is in no roster, De is a noise word.
MaxCandLen == 2
CandChars == {"Li", "Li3", "Lu", "De"}
Candidates == SeqsOf(CandChars, 0, MaxCandLen)

\* Utterances given to parse: up to MaxTokens words, written with no space,
\* one space or two spaces between them.
MaxTokens == 5
ParseTokens ==
    { <<"Li">>, <<"Dui">>, <<"Zheng", "Que">>, <<"Cuo">>, <<"Cuo", "Wu">>,
      <<"1", "8">>, <<"Er", "Shi">> }
Separators == { <<>>, <<" ">>, <<" ", " ">> }

\* Utterances given to process_speech: a spoken name and a tail.
MaxSysRoster == 2
SysRosterNames == { <<"Li">>, <<"Li2">> }
SysRosters == SeqsOf(SysRosterNames, 0, MaxSysRoster)
SysNames ==
    { <<>>, <<"Li">>, <<"Lu">>, <<"De">>, <<"Lu", "Lu">>, <<"Lu", "De">> }
SysTails ==
    { <<>>, <<"Dui", " ", "2">>, <<"Cuo", " ", "2">>, <<"Dui", " ", "Cuo">> }
SysUtterances == {Join(<<n, t>>, <<" ">>) : n \in SysNames, t \in SysTails}

NoRet == [op |-> "none"]

\* Lock(): free; no update_student call in progress, nothing resolved yet.
NoSteps ==
    /\ lock = 0
    /\ calls = <<>>
    /\ pending = NoEntry
    /\ resolved = <<>>
    /\ applied = <<>>

\* Texts given to normalize_chinese_text: up to MaxTextLen characters, spaces
\* and tabs among them.
MaxTextLen == 4
TextChars == {" ", "\t", "Li", "1"}
Texts == SeqsOf(TextChars, 0, MaxTextLen)

\* Names given to _clean_input_name: up to MaxCleanLen characters; Tong Xue,
\* Tong Xue De and De are noise words, Tong and Xue alone are not.
MaxCleanLen == 3
CleanChars == {"Tong", "Xue", "De", "Li", " "}
CleanNames == SeqsOf(CleanChars, 0, MaxCleanLen)

-----------------------------------------------------------------------------
(* The parser called directly on one utterance *)

InitParse ==
    /\ student_names = <<>>
    /\ name_to_pinyin = <<>>
    /\ df = <<>>
    /\ csv = <<>>
    /\ pc = "ready"
    /\ arg \in [tokens : SeqsOf(ParseTokens, 0, MaxTokens), sep : Separators]
    /\ ret = NoRet
    /\ emitted = <<>>
    /\ shown = <<>>
    /\ NoSteps

ParseCall ==
    /\ pc = "ready"
    /\ \E r \in {parse(Join(arg.tokens, arg.sep))} :
           /\ ret' = [op |-> "parse", entry |-> r.entry]
           /\ emitted' = r.log
    /\ pc' = "done"
    /\ UNCHANGED <<student_names, name_to_pinyin, df, csv, arg, shown>>
    /\ UNCHANGED steps

NextParse == ParseCall

SpecParse == InitParse /\ [][NextParse]_vars

-----------------------------------------------------------------------------
(* The matcher called directly, as test_structured_logging.py does *)

InitMatch ==
    /\ student_names \in Rosters
    /\ name_to_pinyin = PinyinTable(student_names, <<>>)
    /\ df = RowsOf(student_names)
    /\ csv = df
    /\ pc = "ready"
    /\ arg \in Candidates
    /\ ret = NoRet
    /\ emitted = <<>>
    /\ shown = <<>>
    /\ NoSteps

FindMatchCall ==
    /\ pc = "ready"
    /\ \E r \in {find_match(student_names, name_to_pinyin, arg)} :
           /\ ret' = [op |-> "find_match", name |-> r.name, kind |-> r.kind]
           /\ emitted' = r.log
    /\ pc' = "done"
    /\ UNCHANGED <<student_names, name_to_pinyin, df, csv, arg, shown>>
    /\ UNCHANGED steps

NextMatch == FindMatchCall

SpecMatch == InitMatch /\ [][NextMatch]_vars

-----------------------------------------------------------------------------
(* normalize_chinese_text called directly on one text *)

InitNormalize ==
    /\ student_names = <<>>
    /\ name_to_pinyin = <<>>
    /\ df = <<>>
    /\ csv = <<>>
    /\ pc = "ready"
    /\ arg \in Texts
    /\ ret = NoRet
    /\ emitted = <<>>
    /\ shown = <<>>
    /\ NoSteps

NormalizeCall ==
    /\ pc = "ready"
    /\ \E r \in {normalize_chinese_text(arg)} :
           ret' = [op |-> "normalize", normalized |-> r.normalized,
                   removed |-> r.removed]
    /\ pc' = "done"
    /\ UNCHANGED <<student_names, name_to_pinyin, df, csv, arg, emitted, shown>>
    /\ UNCHANGED steps

NextNormalize == NormalizeCall

SpecNormalize == InitNormalize /\ [][NextNormalize]_vars

-----------------------------------------------------------------------------
(* _clean_input_name called directly on one name *)

InitClean ==
    /\ student_names = <<>>
    /\ name_to_pinyin = <<>>
    /\ df = <<>>
    /\ csv = <<>>
    /\ pc = "ready"
    /\ arg \in CleanNames
    /\ ret = NoRet
    /\ emitted = <<>>
    /\ shown = <<>>
    /\ NoSteps

CleanCall ==
    /\ pc = "ready"
    /\ ret' = [op |-> "clean", cleaned |-> _clean_input_name(arg)]
    /\ pc' = "done"
    /\ UNCHANGED <<student_names, name_to_pinyin, df, csv, arg, emitted, shown>>
    /\ UNCHANGED steps

NextClean == CleanCall

SpecClean == InitClean /\ [][NextClean]_vars

-----------------------------------------------------------------------------
(* CSVUpdater.update_student called from several threads, statement by      *)
(* statement                                                                *)

\* Callers of update_student, and the entries they bring: a student of the
\* roster and one who is not, with counters that tell the calls apart.
MaxThreads == 2
Threads == 1..MaxThreads
LockNames == { <<"Li">>, <<"Lu">> }
LockEntries ==
    { [name |-> n, correct |-> c[1], wrong |-> c[2]] :
          n \in LockNames, c \in { <<1, 2>>, <<2, 1>> } }

\* A with statement that does not wait for the lock.
LockIgnored(holder) == TRUE

\* Lock.acquire() returns only when no thread holds the lock.
LockFree(holder) == holder = 0

InitLock ==
    /\ \E roster \in SysRosters :
          /\ df = RowsOf(roster)
          /\ csv = df
          /\ student_names = get_student_names(df)
          /\ name_to_pinyin = PinyinTable(student_names, <<>>)
    /\ pc = "running"
    /\ arg = <<>>
    /\ ret = NoRet
    /\ emitted = <<>>
    /\ shown = <<>>
    /\ lock = 0
    /\ calls \in [Threads -> {[pc |-> "waiting", entry |-> e, idx |-> 0,
                               old |-> <<0, 0>>, result |-> "none"] :
                                  e \in LockEntries}]
    /\ pending = NoEntry
    /\ resolved = <<>>
    /\ applied = <<>>

\* with self.lock:
Acquire(t) ==
    /\ calls[t].pc = "waiting"
    /\ LockFree(lock)
    /\ lock' = t
    /\ calls' = [calls EXCEPT ![t].pc = "find"]
    /\ UNCHANGED <<student_names, name_to_pinyin, df, csv, pc, arg, ret,
                   emitted, shown, pending, resolved, applied>>

\* student_idx = df[df['name'] == entry.name].index; return False when it
\* is empty, else idx = student_idx[0].
FindStudent(t) ==
    /\ calls[t].pc = "find"
    /\ LET student_idx ==
               {i \in 1..Len(df) : df[i].name = calls[t].entry.name}
       IN  IF student_idx = {}
           THEN calls' = [calls EXCEPT ![t].pc = "exit", ![t].result = FALSE]
           ELSE calls' = [calls EXCEPT
                            ![t].pc = "read",
                            ![t].idx = CHOOSE i \in student_idx :
                                           \A j \in student_idx : i <= j]
    /\ UNCHANGED <<student_names, name_to_pinyin, df, csv, pc, arg, ret,
                   emitted, shown, lock, pending, resolved, applied>>

\* old_correct = int(df.loc[idx, 'correct']); old_wrong likewise.
ReadOld(t) ==
    /\ calls[t].pc = "read"
    /\ calls' = [calls EXCEPT
                    ![t].pc = "set_correct",
                    ![t].old = <<df[calls[t].idx].correct,
                                 df[calls[t].idx].wrong>>]
    /\ UNCHANGED <<student_names, name_to_pinyin, df, csv, pc, arg, ret,
                   emitted, shown, lock, pending, resolved, applied>>

\* df.loc[idx, 'correct'] = entry.correct
SetCorrect(t) ==
    /\ calls[t].pc = "set_correct"
    /\ df' = [df EXCEPT ![calls[t].idx].correct = calls[t].entry.correct]
    /\ calls' = [calls EXCEPT ![t].pc = "set_wrong"]
    /\ UNCHANGED <<student_names, name_to_pinyin, csv, pc, arg, ret,
                   emitted, shown, lock, pending, resolved, applied>>

\* df.loc[idx, 'wrong'] = entry.wrong
SetWrong(t) ==
    /\ calls[t].pc = "set_wrong"
    /\ df' = [df EXCEPT ![calls[t].idx].wrong = calls[t].entry.wrong]
    /\ calls' = [calls EXCEPT ![t].pc = "write"]
    /\ UNCHANGED <<student_names, name_to_pinyin, csv, pc, arg, ret,
                   emitted, shown, lock, pending, resolved, applied>>

\* df.to_csv(...); return True, or the except branch: return False.
WriteFile(t, write_ok) ==
    /\ calls[t].pc = "write"
    /\ csv' = IF write_ok THEN df ELSE csv
    /\ calls' = [calls EXCEPT ![t].pc = "exit", ![t].result = write_ok]
    /\ UNCHANGED <<student_names, name_to_pinyin, df, pc, arg, ret,
                   emitted, shown, lock, pending, resolved, applied>>

\* Leaving the with block releases the lock.
Release(t) ==
    /\ calls[t].pc = "exit"
    /\ lock' = 0
    /\ calls' = [calls EXCEPT ![t].pc = "returned"]
    /\ UNCHANGED <<student_names, name_to_pinyin, df, csv, pc, arg, ret,
                   emitted, shown, pending, resolved, applied>>

NextLock ==
    \E t \in Threads :
        \/ Acquire(t)
        \/ FindStudent(t)
        \/ ReadOld(t)
        \/ SetCorrect(t)
        \/ SetWrong(t)
        \/ \E write_ok \in BOOLEAN : WriteFile(t, write_ok)
        \/ Release(t)

SpecLock == InitLock /\ [][NextLock]_vars

-----------------------------------------------------------------------------
(* CSVUpdater.update_student called directly, one call after the other *)

InitUpdate ==
    /\ \E roster \in SysRosters :
          /\ df = RowsOf(roster)
          /\ csv = df
          /\ student_names = get_student_names(df)
          /\ name_to_pinyin = PinyinTable(student_names, <<>>)
    /\ pc = "ready"
    /\ arg = <<>>
    /\ ret = NoRet
    /\ emitted = <<>>
    /\ shown = <<>>
    /\ NoSteps

\* One call; `before` keeps the table and the file the call started from.
UpdateStudent(entry, write_ok) ==
    /\ \E u \in {update_student(df, csv, entry, write_ok)} :
           /\ df' = u.df
           /\ csv' = u.file
           /\ ret' = [op |-> "update_student", success |-> u.success,
                      before |-> df, file_before |-> csv]
           /\ emitted' = u.log
    /\ arg' = entry
    /\ UNCHANGED <<student_names, name_to_pinyin, pc, shown>>
    /\ UNCHANGED steps

NextUpdate ==
    \E entry \in LockEntries, write_ok \in BOOLEAN :
        UpdateStudent(entry, write_ok)

SpecUpdate == InitUpdate /\ [][NextUpdate]_vars

-----------------------------------------------------------------------------
(* A matcher whose roster changes between calls of find_match *)

InitRoster ==
    /\ student_names \in SysRosters
    /\ name_to_pinyin = PinyinTable(student_names, <<>>)
    /\ df = RowsOf(student_names)
    /\ csv = df
    /\ pc = "ready"
    /\ arg = <<>>
    /\ ret = NoRet
    /\ emitted = <<>>
    /\ shown = <<>>
    /\ NoSteps

UpdateStudentList(new_names) ==
    /\ \E r \in {update_student_list(
                     [student_names |-> student_names,
                      name_to_pinyin |-> name_to_pinyin], new_names)} :
           /\ student_names' = r.student_names
           /\ name_to_pinyin' = r.name_to_pinyin
    /\ arg' = new_names
    /\ ret' = [op |-> "update_student_list"]
    /\ emitted' = <<>>
    /\ UNCHANGED <<df, csv, pc, shown>>
    /\ UNCHANGED steps

FindMatch(input_name) ==
    /\ \E r \in {find_match(student_names, name_to_pinyin, input_name)} :
           /\ ret' = [op |-> "find_match", name |-> r.name, kind |-> r.kind]
           /\ emitted' = r.log
    /\ arg' = input_name
    /\ UNCHANGED <<student_names, name_to_pinyin, df, csv, pc, shown>>
    /\ UNCHANGED steps

NextRoster ==
    \/ \E new_names \in SysRosters : UpdateStudentList(new_names)
    \/ \E input_name \in Candidates : FindMatch(input_name)

SpecRoster == InitRoster /\ [][NextRoster]_vars

-----------------------------------------------------------------------------
(* The running system: utterances arrive one after the other *)

\* VoiceGradingSystem.__init__: the table is loaded from the file and the
\* matcher is built from its names.
Init ==
    /\ \E roster \in SysRosters :
          /\ df = RowsOf(roster)
          /\ csv = df
          /\ student_names = get_student_names(df)
          /\ name_to_pinyin = PinyinTable(student_names, <<>>)
    /\ pc = "listening"
    /\ arg = <<>>
    /\ ret = NoRet
    /\ emitted = <<>>
    /\ shown = <<>>
    /\ NoSteps

ProcessSpeech(text, write_ok) ==
    /\ pc = "listening"
    /\ \E r \in {process_speech(student_names, name_to_pinyin, df, csv,
                                text, write_ok)} :
           /\ df' = r.df
           /\ csv' = r.file
           /\ ret' = [op |-> "process_speech", entry |-> r.entry,
                      name |-> r.name, kind |-> r.kind,
                      called |-> r.called, success |-> r.success]
           /\ emitted' = r.log
           /\ shown' = r.shown
    /\ arg' = text
    /\ UNCHANGED <<student_names, name_to_pinyin, pc>>
    /\ UNCHANGED steps

Next == \E text \in SysUtterances, write_ok \in BOOLEAN :
            ProcessSpeech(text, write_ok)

Spec == Init /\ [][Next]_vars

-----------------------------------------------------------------------------
(* The listener thread, process_speech in two steps: the name is resolved,  *)
(* then the store is updated                                                *)

\* The number of utterances resolved in one run.
MaxUtterances == 3

\* A listener that takes the next utterance while one is being handled.
HearsAnytime(position) == TRUE

\* audio_callback runs callback(text) on the listener thread itself
\* (speech.py, start_listening): the thread listens for the next phrase
\* only when process_speech has returned.
MayHear(position) == position = "listening"

\* process_speech up to `entry.name = matched_name`: parse and find_match;
\* the handler returns here when either fails.
Resolve(text) ==
    /\ MayHear(pc)
    /\ Len(resolved) < MaxUtterances
    /\ \E p \in {parse(text)} :
         IF p.entry = NoEntry
         THEN /\ ret' = [op |-> "resolve", entry |-> NoEntry,
                         name |-> NoName, kind |-> "None"]
              /\ emitted' = p.log
              /\ shown' = <<>>
              /\ UNCHANGED <<pc, pending, resolved>>
         ELSE \E m \in {find_match(student_names, name_to_pinyin,
                                    p.entry.name)} :
              /\ ret' = [op |-> "resolve", entry |-> p.entry,
                         name |-> m.name, kind |-> m.kind]
              /\ emitted' = p.log \o m.log
              /\ IF m.name = NoName
                 THEN /\ shown' = IF m.kind = "ambiguous"
                                  THEN ShownNames(name_to_pinyin, p.entry.name)
                                  ELSE <<>>
                      /\ UNCHANGED <<pc, pending, resolved>>
                 ELSE /\ shown' = <<>>
                      /\ pc' = "resolved"
                      /\ pending' = [p.entry EXCEPT !.name = m.name]
                      /\ resolved' = Append(resolved, pending')
    /\ arg' = text
    /\ UNCHANGED <<student_names, name_to_pinyin, df, csv, lock, calls,
                   applied>>

\* process_speech from `success = self.csv_updater.update_student(entry)`.
Update(write_ok) ==
    /\ pc = "resolved"
    /\ \E u \in {update_student(df, csv, pending, write_ok)} :
           /\ df' = u.df
           /\ csv' = u.file
           /\ ret' = [op |-> "update_student", entry |-> pending,
                      success |-> u.success]
           /\ emitted' = emitted \o u.log
    /\ applied' = Append(applied, pending)
    /\ pending' = NoEntry
    /\ pc' = "listening"
    /\ UNCHANGED <<student_names, name_to_pinyin, arg, shown, lock, calls,
                   resolved>>

NextListen ==
    \/ \E text \in SysUtterances : Resolve(text)
    \/ \E write_ok \in BOOLEAN : Update(write_ok)

SpecListen == Init /\ [][NextListen]_vars

-----------------------------------------------------------------------------
(* Properties of SpeechParser.parse, checked under SpecParse *)

Parsed == pc = "done" /\ ret.op = "parse"

\* The text the scanners see, and what each of them yields on it.
ParsedText == normalize_chinese_text(Join(arg.tokens, arg.sep)).normalized
CorrectCount == _extract_count(CORRECT_KEYWORDS, ParsedText)
WrongCount == _extract_count(WRONG_KEYWORDS, ParsedText)
NameCandidate == Strip(SplitHead(ParsedText))

\* The last record a parse emitted.
ParserRecord == emitted[Len(emitted)]

NumberWords == { <<"1", "8">>, <<"Er", "Shi">> }
CorrectWords == { <<"Dui">>, <<"Zheng", "Que">> }
WrongWords == { <<"Cuo">>, <<"Cuo", "Wu">> }

\* <name> <correct-keyword> <a> <wrong-keyword> <b>, single spaces.
DocumentedForm ==
    /\ arg.sep = <<" ">>
    /\ Len(arg.tokens) = 5
    /\ arg.tokens[1] = <<"Li">>
    /\ arg.tokens[2] \in CorrectWords
    /\ arg.tokens[3] \in NumberWords
    /\ arg.tokens[4] \in WrongWords
    /\ arg.tokens[5] \in NumberWords

\* C1: for an utterance of the documented form <name> <correct-keyword> <a>
\* <wrong-keyword> <b>, parse returns an entry whose correct is a and whose
\* wrong is b.
C1_DocumentedFormCounts ==
    (Parsed /\ DocumentedForm) =>
        /\ ret.entry # NoEntry
        /\ ret.entry.correct = safe_int_conversion(arg.tokens[3])
        /\ ret.entry.wrong = safe_int_conversion(arg.tokens[5])

\* C7: parse fails with reason missing_both_counts exactly when neither
\* scanner yields a decodable count; when exactly one scanner yields a count
\* and there is a name candidate, parse succeeds with that count and 0 for
\* the other.
C7_OnlyBothMissingIsFatal ==
    Parsed =>
        LET correct == CorrectCount
            wrong   == WrongCount
        IN  /\ (/\ ret.entry = NoEntry
                /\ ParserRecord.stage = "PARSE_FAIL"
                /\ ParserRecord.reason = "missing_both_counts")
               <=> (correct = NoCount /\ wrong = NoCount)
            /\ (correct # NoCount /\ wrong = NoCount
                /\ NameCandidate # <<>>)
               => (/\ ret.entry # NoEntry
                   /\ ret.entry.correct = correct
                   /\ ret.entry.wrong = 0)
            /\ (correct = NoCount /\ wrong # NoCount
                /\ NameCandidate # <<>>)
               => (/\ ret.entry # NoEntry
                   /\ ret.entry.correct = 0
                   /\ ret.entry.wrong = wrong)

\* A parse that succeeded on the wrong count alone, which is not 0.
C7_Witness ==
    /\ Parsed
    /\ CorrectCount = NoCount
    /\ WrongCount > 0
    /\ ret.entry # NoEntry
    /\ ret.entry.correct = 0

\* C10: a parse call emits one TEXT_NORMALIZE record and then exactly one
\* parser record: PARSE_SUCCESS iff it returns an entry, PARSE_FAIL with the
\* missing-field reason iff it returns None.
C10_OneParserRecordPerCall ==
    Parsed =>
        /\ Len(emitted) = 2
        /\ emitted[1].stage = "TEXT_NORMALIZE"
        /\ emitted[2].stage \in {"PARSE_SUCCESS", "PARSE_FAIL"}
        /\ (emitted[2].stage = "PARSE_SUCCESS") <=> (ret.entry # NoEntry)
        /\ (emitted[2].stage = "PARSE_FAIL") <=> (ret.entry = NoEntry)
        /\ (emitted[2].stage = "PARSE_FAIL") =>
               emitted[2].reason \in {"missing_both_counts", "no_name_extracted"}

\* A parse that found a count and no name, and said so in its record.
C10_Witness ==
    /\ Parsed
    /\ ret.entry = NoEntry
    /\ CorrectCount # NoCount
    /\ Len(emitted) = 2
    /\ emitted[2].stage = "PARSE_FAIL"
    /\ emitted[2].reason = "no_name_extracted"

-----------------------------------------------------------------------------
(* Properties of NameMatcher.find_match, checked under SpecMatch *)

Matched == pc = "done" /\ ret.op = "find_match"

\* The candidate as the tiers see it, and its phonetic key.
Cleaned == _clean_input_name(arg)
Key == _get_pinyin(Cleaned)

Entries == 1..Len(name_to_pinyin)
Dist(i) == Levenshtein(Key, name_to_pinyin[i].pinyin)
SameKey(i) == name_to_pinyin[i].pinyin = Key
PrefixRelated(i) ==
    \/ StartsWith(Key, name_to_pinyin[i].pinyin)
    \/ StartsWith(name_to_pinyin[i].pinyin, Key)

\* Tiers 1-3 find nothing in the whole roster.
TiersFailed ==
    /\ ~Contains(student_names, Cleaned)
    /\ LET key == Key
       IN  \A i \in Entries :
               /\ name_to_pinyin[i].pinyin # key
               /\ ~StartsWith(key, name_to_pinyin[i].pinyin)
               /\ ~StartsWith(name_to_pinyin[i].pinyin, key)

\* The entries at the minimum edit distance.
RECURSIVE MinDistanceFrom(_, _)
MinDistanceFrom(i, key) ==
    LET d == Levenshtein(key, name_to_pinyin[i].pinyin)
    IN  IF i >= Len(name_to_pinyin) THEN d
        ELSE Min2(d, MinDistanceFrom(i + 1, key))

Nearest ==
    LET key == Key
        min == MinDistanceFrom(1, key)
    IN  {i \in Entries : Levenshtein(key, name_to_pinyin[i].pinyin) = min}

\* The (name, distance) pairs of the entries of S from index i on, in
\* roster order.
RECURSIVE PairsOf(_, _)
PairsOf(S, i) ==
    IF i > Len(name_to_pinyin) THEN <<>>
    ELSE (IF i \in S
          THEN <<[name |-> name_to_pinyin[i].name, distance |-> Dist(i)]>>
          ELSE <<>>) \o PairsOf(S, i + 1)

\* C2: for every roster and every name in it, find_match(name) returns
\* (name, "exact").
C2_RosterNameIsExact ==
    (Matched /\ Contains(student_names, arg)) =>
        (ret.name = arg /\ ret.kind = "exact")

\* C3: when two distinct roster names have the phonetic key of a candidate
\* that is not a roster name, find_match reports ambiguous and returns no
\* name.
C3_SharedKeyIsAmbiguous ==
    (/\ Matched
     /\ ~Contains(student_names, arg)
     /\ ~Contains(student_names, Cleaned)
     /\ \E i, j \in Entries : i # j /\ SameKey(i) /\ SameKey(j))
    => (ret.name = NoName /\ ret.kind = "ambiguous")

\* C4: find_match returns pinyin_fuzzy only if tiers 1-3 failed over the
\* whole roster, and a candidate whose key equals an entry's key is never
\* reported as pinyin_fuzzy, ambiguous or not found.
C4_FuzzyOnlyAfterTiersFail ==
    Matched =>
        /\ (ret.kind = "pinyin_fuzzy") => TiersFailed
        /\ (\E i \in Entries : SameKey(i)) =>
               (ret.name # NoName /\ ret.kind \in {"exact", "pinyin_exact"})

\* A fuzzy match of a candidate that is within the threshold of an entry.
C4_Witness ==
    /\ Matched
    /\ ret.kind = "pinyin_fuzzy"
    /\ ret.name # NoName
    /\ TiersFailed

-----------------------------------------------------------------------------
(* Properties of process_speech, checked under Spec *)

Processed == ret.op = "process_speech"

\* The set of the elements of a sequence.
Range(seq) == {seq[i] : i \in 1..Len(seq)}

\* C6: a process_speech call whose parse returned None, or whose match
\* returned no name, does not call update_student and leaves the table and
\* the file as they were.
C6_FailedUtteranceLeavesStore ==
    [][(ret'.op = "process_speech"
        /\ (ret'.entry = NoEntry \/ ret'.name = NoName))
       => (df' = df /\ csv' = csv /\ ~ret'.called)]_vars

\* An ambiguous utterance heard when the store already held a count.
C6_Witness ==
    /\ Processed
    /\ ret.entry # NoEntry
    /\ ret.kind = "ambiguous"
    /\ ~ret.called
    /\ \E i \in 1..Len(df) : df[i].correct # 0

\* C9: whenever find_match reports ambiguous, the names process_speech
\* shows are exactly the names tied at the minimum distance.
C9_ShownAreTheTiedNames ==
    (Processed /\ ret.kind = "ambiguous") =>
        Range(shown) = Range(NamesOf(emitted[Len(emitted)].candidates))

-----------------------------------------------------------------------------
(* Decision records of the matcher and the store *)

\* The tier in which a find_match call was decided: 1 exact, 2 equal key,
\* 3 prefix relation, 4 edit distance (fuzzy, ambiguous or not found).
DecidedTier ==
    CASE ret.kind = "exact" -> 1
      [] ret.kind = "pinyin_exact" -> 2
      [] ret.kind = "pinyin_contains" -> 3
      [] OTHER -> 4

\* C11: a find_match call decided in tier k emits k decision records, one
\* for each tier it attempted.
C11_OneRecordPerTierAttempted ==
    Matched => Len(emitted) = DecidedTier

\* C12: every update_student call emits exactly one structured record:
\* CSV_UPDATE_SUCCESS when it returns True, CSV_UPDATE_FAIL when it returns
\* False.
C12_UpdateEmitsOneRecord ==
    (Processed /\ ret.called) =>
        /\ emitted # <<>>
        /\ emitted[Len(emitted)].stage =
               (IF ret.success THEN "CSV_UPDATE_SUCCESS" ELSE "CSV_UPDATE_FAIL")
        /\ Cardinality({i \in 1..Len(emitted) :
                          emitted[i].stage \in {"CSV_UPDATE_SUCCESS",
                                                "CSV_UPDATE_FAIL"}}) = 1

\* C15: whenever update_student returns False, every row of the in-memory
\* table is as it was before the call.
C15_FailedUpdateLeavesTable ==
    [][(ret'.op = "process_speech" /\ ret'.called /\ ~ret'.success)
       => df' = df]_vars

\* C20: whenever find_match returns a name, its kind is one of exact,
\* pinyin_exact, pinyin_prefix, pinyin_fuzzy.
C20_KindsOfAMatch ==
    (Matched /\ ret.name # NoName) =>
        ret.kind \in {"exact", "pinyin_exact", "pinyin_prefix", "pinyin_fuzzy"}

-----------------------------------------------------------------------------
(* The order of the cascade, checked under SpecMatch *)

\* Roster positions whose name has the candidate's key, and those whose key
\* is in a prefix relation with it.
RosterSameKey ==
    LET key == Key
    IN  {j \in 1..Len(student_names) : _get_pinyin(student_names[j]) = key}
RosterPrefixRelated ==
    LET key == Key
    IN  {j \in 1..Len(student_names) :
            \/ StartsWith(key, _get_pinyin(student_names[j]))
            \/ StartsWith(_get_pinyin(student_names[j]), key)}

\* The name at the first position of S in roster order.
FirstInRoster(S) == student_names[CHOOSE j \in S : \A k \in S : j <= k]

\* C18: the kind returned is that of the lowest-numbered tier that any
\* roster entry satisfies, wherever in the roster that entry is; in the
\* equal-key and prefix tiers the name returned is the first in roster order
\* that satisfies the tier.
C18_LowestTierOverWholeRoster ==
    Matched =>
        LET exact  == Contains(student_names, Cleaned)
            same   == RosterSameKey
            prefix == RosterPrefixRelated
        IN  /\ exact => (ret.kind = "exact" /\ ret.name = Cleaned)
            /\ (~exact /\ same # {})
               => (/\ ret.kind = "pinyin_exact"
                   /\ ret.name = FirstInRoster(same))
            /\ (~exact /\ same = {} /\ prefix # {})
               => (/\ ret.kind = "pinyin_contains"
                   /\ ret.name = FirstInRoster(prefix))
            /\ (~exact /\ same = {} /\ prefix = {})
               => ret.kind \in {"pinyin_fuzzy", "ambiguous", "None"}

\* An equal-key match on the last of two homophones that both stand behind
\* an entry which satisfies only the prefix tier.
C18_Witness ==
    /\ Matched
    /\ ~Contains(student_names, Cleaned)
    /\ Len(student_names) = 3
    /\ 1 \in RosterPrefixRelated \ RosterSameKey
    /\ RosterSameKey = {2, 3}
    /\ student_names[2] # student_names[3]
    /\ ret.kind = "pinyin_exact"
    /\ ret.name = student_names[2]

-----------------------------------------------------------------------------
(* The name candidate, checked under SpecParse *)

Keywords == CorrectWords \cup WrongWords

\* A digit or a keyword starts at position i of the text.
StopsAt(text, i) ==
    \/ text[i] \in Digits
    \/ \E w \in Keywords : MatchesAt(text, w, i)

\* t contains the word w.
Occurs(w, t) == \E i \in 1..Len(t) : MatchesAt(t, w, i)

\* text[1..k-1] is the part of the text before its first digit or keyword.
IsHead(text, k) ==
    /\ k = Len(text) + 1 \/ StopsAt(text, k)
    /\ \A j \in 1..(k - 1) : ~StopsAt(text, j)

\* C16: when a count is found, the entry's name is the trimmed part of the
\* normalized text before the first digit or keyword, with no digit and no
\* keyword in it; when that part is empty, parse returns None with reason
\* no_name_extracted.
C16_NameIsTrimmedHead ==
    (Parsed /\ (CorrectCount # NoCount \/ WrongCount # NoCount)) =>
        LET text == ParsedText
        IN  \E k \in 1..(Len(text) + 1) :
                /\ IsHead(text, k)
                /\ LET head == Strip(Slice(text, 1, k - 1))
                   IN  IF head = <<>>
                       THEN /\ ret.entry = NoEntry
                            /\ ParserRecord.stage = "PARSE_FAIL"
                            /\ ParserRecord.reason = "no_name_extracted"
                       ELSE /\ ret.entry # NoEntry
                            /\ ret.entry.name = head
                            /\ \A i \in 1..Len(head) : head[i] \notin Digits
                            /\ \A w \in Keywords : ~Occurs(w, head)

\* A name cut at a digit and trimmed of the space before it.
C16_Witness ==
    /\ Parsed
    /\ ret.entry # NoEntry
    /\ Len(ret.entry.name) + 2 <= Len(ParsedText)
    /\ ParsedText[Len(ret.entry.name) + 1] = " "
    /\ ParsedText[Len(ret.entry.name) + 2] \in Digits

-----------------------------------------------------------------------------
(* Normalization, checked under SpecNormalize *)

Normalized == pc = "done" /\ ret.op = "normalize"

\* C17: normalizing a normalized text returns it unchanged with an empty
\* removed-tokens list, and the removed-tokens list of a call is
\* ["extra_whitespace"] exactly when the normalized text differs from the
\* input.
C17_NormalizeIdempotent ==
    Normalized =>
        /\ normalize_chinese_text(ret.normalized) =
               [normalized |-> ret.normalized, removed |-> <<>>]
        /\ ret.removed \in {<<>>, <<"extra_whitespace">>}
        /\ (ret.removed = <<"extra_whitespace">>) <=> (ret.normalized # arg)

\* A text with a tab inside and a space at the end, normalized to words
\* joined by one space.
C17_Witness ==
    /\ Normalized
    /\ ret.removed = <<"extra_whitespace">>
    /\ \E i \in 1..Len(arg) : arg[i] = "\t"
    /\ arg[Len(arg)] = " "
    /\ \E i \in 1..Len(ret.normalized) : ret.normalized[i] = " "

-----------------------------------------------------------------------------
(* Noise-word stripping, checked under SpecClean *)

CleanedName == pc = "done" /\ ret.op = "clean"

\* C19: the cleaned name contains no noise word, and cleaning it again
\* leaves it unchanged.
C19_CleanedHasNoNoiseWord ==
    CleanedName =>
        /\ \A k \in 1..Len(NAME_NOISE_WORDS) :
               \A i \in 1..Len(ret.cleaned) :
                   ~MatchesAt(ret.cleaned, NAME_NOISE_WORDS[k], i)
        /\ _clean_input_name(ret.cleaned) = ret.cleaned

-----------------------------------------------------------------------------
(* Concurrent updates, checked under SpecLock *)

\* Thread t is between reading the old counters and writing the file.
InSection(t) == calls[t].pc \in {"read", "set_correct", "set_wrong", "write"}

AllReturned == \A t \in Threads : calls[t].pc = "returned"

\* C13: the read / assign / write sections of concurrent update_student
\* calls never overlap, and when all calls have returned every row holds
\* its initial counters or the two counters of one call for its name.
C13_UpdatesDoNotInterleave ==
    /\ \A t, u \in Threads : (t # u) => ~(InSection(t) /\ InSection(u))
    /\ AllReturned =>
           \A i \in 1..Len(df) :
               \/ df[i].correct = 0 /\ df[i].wrong = 0
               \/ \E t \in Threads :
                      calls[t].entry = [name |-> df[i].name,
                                        correct |-> df[i].correct,
                                        wrong |-> df[i].wrong]

\* Two calls for the same student with different counters, both done and
\* both written.
C13_Witness ==
    /\ AllReturned
    /\ calls[1].entry.name = calls[2].entry.name
    /\ calls[1].entry.correct # calls[2].entry.correct
    /\ calls[1].result = TRUE
    /\ calls[2].result = TRUE

-----------------------------------------------------------------------------
(* The order of updates, checked under SpecListen *)

\* The first row of the table that carries the name n.
RowOf(n) ==
    df[CHOOSE i \in 1..Len(df) :
           /\ df[i].name = n
           /\ \A j \in 1..(i - 1) : df[j].name # n]

\* The j-th resolved entry is the last one resolved for its name.
LastForName(j) ==
    \A k \in (j + 1)..Len(resolved) : resolved[k].name # resolved[j].name

\* C14: updates are applied in the order their names were resolved, so when
\* all have completed the counters stored for a name are those of the
\* utterance resolved last for it.
C14_UpdatesInResolutionOrder ==
    /\ Len(applied) <= Len(resolved)
    /\ \A i \in 1..Len(applied) : applied[i] = resolved[i]
    /\ (Len(applied) = Len(resolved)) =>
           \A j \in 1..Len(resolved) :
               LastForName(j) =>
                   /\ RowOf(resolved[j].name).correct = resolved[j].correct
                   /\ RowOf(resolved[j].name).wrong = resolved[j].wrong

\* Two utterances resolved to the same student with different counters,
\* both stored.
C14_Witness ==
    /\ Len(resolved) >= 2
    /\ Len(applied) = Len(resolved)
    /\ resolved[1].name = resolved[2].name
    /\ resolved[1].correct # resolved[2].correct
    /\ LastForName(2)
    /\ RowOf(resolved[2].name).correct = resolved[2].correct

-----------------------------------------------------------------------------
(* The table of a changing roster, checked under SpecRoster *)

\* C21: after construction and after any roster changes, the table has
\* exactly the names of the current roster, each once and with the phonetic
\* key of that name, and find_match returns no name outside the roster.
C21_TableFollowsRoster ==
    /\ \A i \in 1..Len(name_to_pinyin) :
           /\ Contains(student_names, name_to_pinyin[i].name)
           /\ name_to_pinyin[i].pinyin = _get_pinyin(name_to_pinyin[i].name)
           /\ \A j \in 1..Len(name_to_pinyin) :
                  (name_to_pinyin[j].name = name_to_pinyin[i].name) => j = i
    /\ \A k \in 1..Len(student_names) :
           \E i \in 1..Len(name_to_pinyin) :
               name_to_pinyin[i].name = student_names[k]
    /\ (ret.op = "find_match" /\ ret.name # NoName)
           => Contains(student_names, ret.name)

\* A match found in a roster that had replaced another one, for a candidate
\* that is a homophone of a name of the roster.
C21_Witness ==
    /\ ret.op = "find_match"
    /\ ret.kind = "pinyin_exact"
    /\ student_names = << <<"Li2">> >>
    /\ df # RowsOf(student_names)
    /\ ret.name = <<"Li2">>

-----------------------------------------------------------------------------
(* A spoken name made of noise words only, checked under Spec *)

\* The roster is not empty and holds neither the empty name nor a name with
\* an empty phonetic key.
RosterHasKeys ==
    /\ student_names # <<>>
    /\ \A k \in 1..Len(student_names) :
           /\ student_names[k] # <<>>
           /\ _get_pinyin(student_names[k]) # <<>>

\* C22: with such a roster, an utterance whose name is empty after
\* noise-word stripping is resolved to the first roster entry by the prefix
\* tier, and process_speech overwrites that student's counters with those of
\* the utterance.
C22_EmptyNameHitsFirstStudent ==
    (/\ Processed
     /\ ret.entry # NoEntry
     /\ _clean_input_name(ret.entry.name) = <<>>
     /\ RosterHasKeys)
    => /\ ret.kind = "pinyin_contains"
       /\ ret.name = student_names[1]
       /\ ret.called
       /\ df[1].name = student_names[1]
       /\ df[1].correct = ret.entry.correct
       /\ df[1].wrong = ret.entry.wrong
       /\ ret.success => csv = df

\* The utterance "De Cuo 2" heard with two students in the roster: the
\* first one now has 2 wrong answers in the table and in the file.
C22_Witness ==
    /\ Processed
    /\ ret.entry # NoEntry
    /\ ret.entry.name = <<"De">>
    /\ Len(student_names) = 2
    /\ student_names[1] # student_names[2]
    /\ ret.success
    /\ df[1].wrong = 2
    /\ csv[1].wrong = 2

-----------------------------------------------------------------------------
(* The effect of one update, checked under SpecUpdate *)

Updated == ret.op = "update_student"

\* The rows of the table before the call that carry the entry's name.
RowsWithName == {i \in 1..Len(ret.before) : ret.before[i].name = arg.name}

\* C23: a successful update_student(entry) sets the counters of the first
\* row with the entry's name to entry.correct and entry.wrong, and leaves
\* every other row and the names and their order as they were; for a name
\* that is not in the table it returns False and changes nothing.
C23_UpdateOverwritesFirstRow ==
    Updated =>
        /\ Len(df) = Len(ret.before)
        /\ \A i \in 1..Len(df) : df[i].name = ret.before[i].name
        /\ ret.success =>
               /\ RowsWithName # {}
               /\ \A i \in RowsWithName :
                      IF \A j \in RowsWithName : i <= j
                      THEN /\ df[i].correct = arg.correct
                           /\ df[i].wrong = arg.wrong
                      ELSE df[i] = ret.before[i]
               /\ \A i \in (1..Len(df)) \ RowsWithName : df[i] = ret.before[i]
               /\ csv = df
        /\ (RowsWithName = {}) =>
               /\ ~ret.success
               /\ df = ret.before
               /\ csv = ret.file_before

\* A second update of a student entered twice: the first row had the
\* counters of an earlier call and has those of this one, the second row
\* still has 0 and 0.
C23_Witness ==
    /\ Updated
    /\ ret.success
    /\ Len(df) = 2
    /\ df[1].name = df[2].name
    /\ ret.before[1].correct = 1
    /\ arg.correct = 2
    /\ df[1].correct = 2
    /\ df[1].wrong = 1
    /\ df[2].correct = 0

====
